---------------------------- MODULE Spec2Model ----------------------------
(***************************************************************************)
(* Model of the code-jam qualifier test suite: the fixture tables of       *)
(* test_qualifier.py, the subTest probes that drive them through the       *)
(* parse_iso8601 function of the entry under test, and the                 *)
(* QualifierTestResult / QualifierTestRunner classes that tally the        *)
(* verdicts and write the summary.                                          *)
(*                                                                         *)
(* Strings that are parsed are sequences of one-character strings.         *)
(* unittest itself (TestCase.run, subTest, TestSuite.run, TestResult) is   *)
(* the standard library; its steps are modelled where the repository's     *)
(* code calls into it, with the semantics of the CPython 3.7/3.8 the       *)
(* repository targets: a subTest's outcome is queued on the test's         *)
(* outcome.errors and handed to result.addSubTest after the test method    *)
(* returns.  setUpClass (the import of the entry) is taken to succeed.     *)
(***************************************************************************)
EXTENDS Integers, Sequences, FiniteSets, TLC

\* The number of fixtures one run may fail when the entry under test behaves
\* arbitrarily (every other probe of that run gets the outcome its fixture
\* expects).
MaxFaults == 2

\* The same, in the runs checked for termination, where the runner's failfast
\* is free
MaxFairFaults == 1

(***************************************************************************)
(* datetime.datetime values and the outcomes of a call of parse_iso8601    *)
(***************************************************************************)
None == "None"

\* datetime.datetime(year, month, day, hour=0, minute=0, second=0,
\*                   microsecond=0, tzinfo=None)
datetime(y, mo, d, h, mi, s, us, tz) ==
  [year |-> y, month |-> mo, day |-> d, hour |-> h, minute |-> mi,
   second |-> s, microsecond |-> us, tzinfo |-> tz]

datetime3(y, mo, d) == datetime(y, mo, d, 0, 0, 0, 0, None)

datetime4(y, mo, d, h) == datetime(y, mo, d, h, 0, 0, 0, None)

datetime5(y, mo, d, h, mi) == datetime(y, mo, d, h, mi, 0, 0, None)

\* TestCase = collections.namedtuple("TestCase", "input expected_output")
TestCase(input, expected_output) ==
  [input |-> input, expected_output |-> expected_output]

\* An entry of the rejection tuple: a bare string, handed to subTest(input=...)
InvalidString(input) == [input |-> input]

\* What a call of parse_iso8601 can do: return an object (a datetime or an
\* object of another class) or raise.
Returns(v) == [tag |-> "return", class |-> "datetime", value |-> v, exc |-> None]

ReturnsOther == [tag |-> "return", class |-> "object", value |-> datetime3(1, 1, 1), exc |-> None]

Raises(e) == [tag |-> "raise", class |-> None, value |-> datetime3(1, 1, 1), exc |-> e]

NoCall == [tag |-> "none", class |-> None, value |-> datetime3(1, 1, 1), exc |-> None]

(***************************************************************************)
(* The fixture tables of test_qualifier.py                                 *)
(***************************************************************************)
\* Part001_BasicRequirements.test_001_accepts_valid_date_only_strings
Part001_test_001_cases ==
  << TestCase(<<"1","5","8","3","-","0","1","-","0","1">>,
             datetime3(1583, 1, 1)),
     TestCase(<<"2","0","0","0","-","0","2","-","2","9">>,
             datetime3(2000, 2, 29)),
     TestCase(<<"2","0","2","0","-","0","1","-","1","0">>,
             datetime3(2020, 1, 10)),
     TestCase(<<"9","9","9","9","-","1","2","-","3","1">>,
             datetime3(9999, 12, 31)),
     TestCase(<<"2","0","2","0","-","0","2","-","2","9">>,
             datetime3(2020, 2, 29)) >>

\* Part001_test_002_cases with the minute of the fourth expected value left out
Part001_test_002_cases_NoMinute ==
  << TestCase(<<"2","0","1","9","-","1","2","-","1","8","T","2","1",":","1","0",":","4","8">>,
             datetime(2019, 12, 18, 21, 10, 48, 0, None)),
     TestCase(<<"2","0","2","8","-","0","2","-","2","9","T","0","0",":","0","0",":","0","0">>,
             datetime(2028, 2, 29, 0, 0, 0, 0, None)),
     TestCase(<<"2","3","9","9","-","0","8","-","3","1","T","2","3",":","5","9",":","5","9">>,
             datetime(2399, 8, 31, 23, 59, 59, 0, None)),
     TestCase(<<"1","9","5","6","-","0","1","-","3","1","T","0","8",":","1","7">>,
             datetime4(1956, 1, 31, 8)),
     TestCase(<<"1","9","1","0","-","0","6","-","2","2","T","1","1",":","1","1">>,
             datetime5(1910, 6, 22, 11, 11)),
     TestCase(<<"1","9","0","5","-","1","2","-","2","2","T","2","3",":","5","9">>,
             datetime5(1905, 12, 22, 23, 59)),
     TestCase(<<"1","9","1","2","-","0","6","-","2","3","T","0","0">>,
             datetime4(1912, 6, 23, 0)),
     TestCase(<<"1","7","9","1","-","1","2","-","2","6","T","2","3">>,
             datetime4(1791, 12, 26, 23)),
     TestCase(<<"1","5","9","6","-","0","3","-","3","1","T","1","2">>,
             datetime4(1596, 3, 31, 12)) >>

\* Part001_BasicRequirements.test_002_accepts_valid_datetime_strings
Part001_test_002_cases ==
  << TestCase(<<"2","0","1","9","-","1","2","-","1","8","T","2","1",":","1","0",":","4","8">>,
             datetime(2019, 12, 18, 21, 10, 48, 0, None)),
     TestCase(<<"2","0","2","8","-","0","2","-","2","9","T","0","0",":","0","0",":","0","0">>,
             datetime(2028, 2, 29, 0, 0, 0, 0, None)),
     TestCase(<<"2","3","9","9","-","0","8","-","3","1","T","2","3",":","5","9",":","5","9">>,
             datetime(2399, 8, 31, 23, 59, 59, 0, None)),
     TestCase(<<"1","9","5","6","-","0","1","-","3","1","T","0","8",":","1","7">>,
             datetime5(1956, 1, 31, 8, 17)),
     TestCase(<<"1","9","1","0","-","0","6","-","2","2","T","1","1",":","1","1">>,
             datetime5(1910, 6, 22, 11, 11)),
     TestCase(<<"1","9","0","5","-","1","2","-","2","2","T","2","3",":","5","9">>,
             datetime5(1905, 12, 22, 23, 59)),
     TestCase(<<"1","9","1","2","-","0","6","-","2","3","T","0","0">>,
             datetime4(1912, 6, 23, 0)),
     TestCase(<<"1","7","9","1","-","1","2","-","2","6","T","2","3">>,
             datetime4(1791, 12, 26, 23)),
     TestCase(<<"1","5","9","6","-","0","3","-","3","1","T","1","2">>,
             datetime4(1596, 3, 31, 12)) >>

\* Part001_BasicRequirements.test_003_rejects_invalid_datetime_stings
Part001_test_003_cases ==
  << InvalidString(<<"2","0","0","1","-","0","2","-","2","8">>),
     InvalidString(<<"1","9","8","9","-","1","3","-","0","1">>),
     InvalidString(<<"1","9","9","0","-","0","1","-","3","2">>),
     InvalidString(<<"2","3","4","5","-","2","-","1","0">>),
     InvalidString(<<"1","7","8","8","-","1","2","-","1">>),
     InvalidString(<<"2","0","1","2","/","1","0","/","0","2">>),
     InvalidString(<<"1","9","9","9",":","1","0",":","0","2">>),
     InvalidString(<<"2","0","1","2"," ","1","0"," ","0","2">>),
     InvalidString(<<"1","7","-","1","2","-","2","0","1","9">>),
     InvalidString(<<"9","0","-","0","3","-","1","4">>),
     InvalidString(<<"2","0","1","9","-","1","0","1","2">>),
     InvalidString(<<"2","0","1","9","1","0","-","1","2">>) >>

\* Part002_AdvancedRequirements.test_001_accepts_valid_date_only_strings
Part002_test_001_cases ==
  << TestCase(<<"1","5","8","3","-","0","1","-","0","1">>,
             datetime3(1583, 1, 1)),
     TestCase(<<"2","0","0","0","-","0","2","-","2","9">>,
             datetime3(2000, 2, 29)),
     TestCase(<<"2","0","2","0","-","0","1","-","1","0">>,
             datetime3(2020, 1, 10)),
     TestCase(<<"9","9","9","9","-","1","2","-","3","1">>,
             datetime3(9999, 12, 31)),
     TestCase(<<"2","0","2","0","-","0","2","-","2","9">>,
             datetime3(2020, 2, 29)) >>

(***************************************************************************)
(* The Parser Contract: the accepted grammar and the calendar validation.  *)
(* The repository holds no parser; this is the contract an entry is to     *)
(* implement.                                                              *)
(***************************************************************************)
Digits == {"0", "1", "2", "3", "4", "5", "6", "7", "8", "9"}

DigitVal(c) ==
  CASE c = "0" -> 0 [] c = "1" -> 1 [] c = "2" -> 2 [] c = "3" -> 3
    [] c = "4" -> 4 [] c = "5" -> 5 [] c = "6" -> 6 [] c = "7" -> 7
    [] c = "8" -> 8 [] c = "9" -> 9

\* The value of the two-digit field that starts at position p
Field2(s, p) == 10 * DigitVal(s[p]) + DigitVal(s[p + 1])

Field4(s, p) == 100 * Field2(s, p) + Field2(s, p + 2)

\* DATE = YYYY "-" MM "-" DD ; DATETIME = DATE "T" TIME ;
\* TIME = HH [":" MM [":" SS]] ; fixed widths, literal separators
WellFormed(s) ==
  /\ Len(s) \in {10, 13, 16, 19}
  /\ \A p \in {1, 2, 3, 4, 6, 7, 9, 10} : s[p] \in Digits
  /\ s[5] = "-" /\ s[8] = "-"
  /\ Len(s) >= 13 => (s[11] = "T" /\ s[12] \in Digits /\ s[13] \in Digits)
  /\ Len(s) >= 16 => (s[14] = ":" /\ s[15] \in Digits /\ s[16] \in Digits)
  /\ Len(s) >= 19 => (s[17] = ":" /\ s[18] \in Digits /\ s[19] \in Digits)

IsLeapYear(y) == y % 4 = 0 /\ (y % 100 # 0 \/ y % 400 = 0)

DaysInMonth(y, m) ==
  IF m \in {1, 3, 5, 7, 8, 10, 12} THEN 31
  ELSE IF m \in {4, 6, 9, 11} THEN 30
  ELSE IF IsLeapYear(y) THEN 29 ELSE 28

\* The fields read from a well-formed string; omitted time fields are 0
FieldsOf(s) ==
  datetime(Field4(s, 1), Field2(s, 6), Field2(s, 9),
           IF Len(s) >= 13 THEN Field2(s, 12) ELSE 0,
           IF Len(s) >= 16 THEN Field2(s, 15) ELSE 0,
           IF Len(s) >= 19 THEN Field2(s, 18) ELSE 0,
           0, None)

CalendarValid(v) ==
  /\ v.year \in 1..9999
  /\ v.month \in 1..12
  /\ v.day >= 1 /\ v.day <= DaysInMonth(v.year, v.month)
  /\ v.hour \in 0..23 /\ v.minute \in 0..59 /\ v.second \in 0..59

\* parse(input) -> Success(CivilDateTime) | Rejected, with Rejected signalled
\* by raising ValueError
ParseContract(s) ==
  IF WellFormed(s) /\ CalendarValid(FieldsOf(s))
  THEN Returns(FieldsOf(s))
  ELSE Raises("ValueError")

(***************************************************************************)
(* The test classes and their test methods                                 *)
(***************************************************************************)
Basic == "Part001_BasicRequirements"

Advanced == "Part002_AdvancedRequirements"

\* The test methods of test_qualifier.py.  probe names the body of the
\* method's subTest block: "equal" for _run_test_cases, "raises" for the
\* assertRaises(ValueError) block of test_003.
Tests ==
  << [cls |-> Basic, method |-> "test_001_accepts_valid_date_only_strings",
      probe |-> "equal", cases |-> Part001_test_001_cases],
     [cls |-> Basic, method |-> "test_002_accepts_valid_datetime_strings",
      probe |-> "equal", cases |-> Part001_test_002_cases],
     [cls |-> Basic, method |-> "test_003_rejects_invalid_datetime_stings",
      probe |-> "raises", cases |-> Part001_test_003_cases],
     [cls |-> Advanced, method |-> "test_001_accepts_valid_date_only_strings",
      probe |-> "equal", cases |-> Part002_test_001_cases] >>

TestIds == DOMAIN Tests

Classes == {Tests[k].cls : k \in TestIds}

\* A subtest is one fixture of one test method: the _SubTest that subTest()
\* creates, whose params are the fixture
AllSubtests ==
  UNION {{[test |-> k, case |-> c] : c \in DOMAIN Tests[k].cases} : k \in TestIds}

Params(st) == Tests[st.test].cases[st.case]

Iota(n) == [x \in 1..n |-> x]

Reversed(s) == [x \in 1..Len(s) |-> s[Len(s) + 1 - x]]

\* The characters of the names below, in the order of their code points
CodePoints ==
  <<"0","1","2","3","4","5","6","7","8","9",
     "A","B","C","D","E","F","G","H","I","J","K","L","M","N","O","P","Q","R","S","T","U","V","W","X","Y","Z","_",
     "a","b","c","d","e","f","g","h","i","j","k","l","m","n","o","p","q","r","s","t","u","v","w","x","y","z">>

Ord(c) == CHOOSE n \in DOMAIN CodePoints : CodePoints[n] = c

\* str.__lt__: the first differing character decides, a proper prefix is less
RECURSIVE StrLess(_, _)
StrLess(a, b) ==
  IF a = << >> THEN b # << >>
  ELSE IF b = << >> THEN FALSE
  ELSE IF Head(a) = Head(b) THEN StrLess(Tail(a), Tail(b))
  ELSE Ord(Head(a)) < Ord(Head(b))

\* The class and the method name of each test method of Tests, character by
\* character
Names ==
  << [cls |-> <<"P","a","r","t","0","0","1","_","B","a","s","i","c","R","e","q","u","i","r","e","m","e","n","t","s">>,
      method |-> <<"t","e","s","t","_","0","0","1","_","a","c","c","e","p","t","s","_","v","a","l","i","d","_","d","a","t","e","_","o","n","l","y","_","s","t","r","i","n","g","s">>],
     [cls |-> <<"P","a","r","t","0","0","1","_","B","a","s","i","c","R","e","q","u","i","r","e","m","e","n","t","s">>,
      method |-> <<"t","e","s","t","_","0","0","2","_","a","c","c","e","p","t","s","_","v","a","l","i","d","_","d","a","t","e","t","i","m","e","_","s","t","r","i","n","g","s">>],
     [cls |-> <<"P","a","r","t","0","0","1","_","B","a","s","i","c","R","e","q","u","i","r","e","m","e","n","t","s">>,
      method |-> <<"t","e","s","t","_","0","0","3","_","r","e","j","e","c","t","s","_","i","n","v","a","l","i","d","_","d","a","t","e","t","i","m","e","_","s","t","i","n","g","s">>],
     [cls |-> <<"P","a","r","t","0","0","2","_","A","d","v","a","n","c","e","d","R","e","q","u","i","r","e","m","e","n","t","s">>,
      method |-> <<"t","e","s","t","_","0","0","1","_","a","c","c","e","p","t","s","_","v","a","l","i","d","_","d","a","t","e","_","o","n","l","y","_","s","t","r","i","n","g","s">>] >>

\* dir() lists names sorted: test k comes before test j in the loaded suite
\* when its class name is less, or the class is the same and its method name
\* is less
DirBefore(k, j) ==
  \/ StrLess(Names[k].cls, Names[j].cls)
  \/ Names[k].cls = Names[j].cls /\ StrLess(Names[k].method, Names[j].method)

DirRank(k) == 1 + Cardinality({j \in TestIds : DirBefore(j, k)})

\* load_testsuite with the names taken in descending order
load_testsuite_Descending ==
  [n \in TestIds |->
     LET k == CHOOSE k \in TestIds : DirRank(k) = Len(Tests) + 1 - n
     IN [test |-> k, order |-> Iota(Len(Tests[k].cases))]]

\* load_testsuite: the TestCase classes of the module in the order of
\* dir(test_module), the test methods of each in the order of dir(class)
\* (sortTestMethodsUsing = None leaves the names as dir() gives them), the
\* fixtures in their tuple's order.  QualifierTestCase, which the module
\* imports, is a TestCase class too and contributes an empty suite.
load_testsuite ==
  [n \in TestIds |->
     LET k == CHOOSE k \in TestIds : DirRank(k) = n
     IN [test |-> k, order |-> Iota(Len(Tests[k].cases))]]

(***************************************************************************)
(* The body of a subTest block                                             *)
(***************************************************************************)
\* datetime.__eq__: a naive and an aware datetime are never equal
DatetimeEq(a, b) ==
  /\ (a.tzinfo = None) = (b.tzinfo = None)
  /\ a.year = b.year /\ a.month = b.month /\ a.day = b.day
  /\ a.hour = b.hour /\ a.minute = b.minute /\ a.second = b.second
  /\ a.microsecond = b.microsecond

\* run_test_case without its assertEqual
run_test_case_NoEqual(test_case, out) ==
  IF out.tag = "raise" THEN out.exc
  ELSE IF out.class # "datetime" THEN "AssertionError"
  ELSE IF out.value.tzinfo # None THEN "AssertionError"
  ELSE None

\* _run_test_cases, the with-block: the exception that leaves it, or None
run_test_case(test_case, out) ==
  IF out.tag = "raise" THEN out.exc
  ELSE IF out.class # "datetime" THEN "AssertionError"
  ELSE IF ~ DatetimeEq(test_case.expected_output, out.value) THEN "AssertionError"
  ELSE IF out.value.tzinfo # None THEN "AssertionError"
  ELSE None

\* assert_raises_ValueError as assertRaises(Exception) would behave
assert_raises_AnyException(out) ==
  IF out.tag = "raise" THEN None ELSE "AssertionError"

\* test_003, the with-block: assertRaises(ValueError) swallows a ValueError,
\* lets any other exception through and fails when nothing was raised
assert_raises_ValueError(out) ==
  IF out.tag = "raise"
  THEN (IF out.exc = "ValueError" THEN None ELSE out.exc)
  ELSE "AssertionError"

SubTestBody(k, test_case, out) ==
  IF Tests[k].probe = "equal"
  THEN run_test_case(test_case, out)
  ELSE assert_raises_ValueError(out)

(***************************************************************************)
(* The entry under test                                                    *)
(***************************************************************************)
SomeDatetime == datetime3(2000, 1, 1)

\* A value that differs from v in exactly the named field and is still a
\* datetime Python can build
Wrong(v, f) ==
  CASE f = "year" -> [v EXCEPT !.year = IF @ > 400 THEN @ - 400 ELSE @ + 400]
    [] f = "month" -> [v EXCEPT !.month = IF @ = 1 THEN 3 ELSE 1]
    [] f = "day" -> [v EXCEPT !.day = IF @ = 1 THEN 2 ELSE @ - 1]
    [] f = "tzinfo" -> [v EXCEPT !.tzinfo = "UTC"]
    [] OTHER -> [v EXCEPT ![f] = IF @ = 0 THEN 1 ELSE @ - 1]

FieldNames ==
  {"year", "month", "day", "hour", "minute", "second", "microsecond", "tzinfo"}

\* Every outcome a call of parse_iso8601 is given in the model for a fixture
PossibleOutcomes(k, test_case) ==
  {Raises("ValueError"), Raises("Exception"), ReturnsOther, Returns(SomeDatetime)}
    \cup (IF Tests[k].probe = "equal"
          THEN {Returns(test_case.expected_output)}
                 \cup {Returns(Wrong(test_case.expected_output, f)) : f \in FieldNames}
          ELSE {})

Inputs == {Params(st).input : st \in AllSubtests}

NoInput == << >>

\* The entries: one that may answer every call differently and fails at most
\* n fixtures of a run, and the deterministic ones, which follow the Parser
\* Contract except on at most one input
Arbitrary(n) ==
  [deterministic |-> FALSE, fault_at |-> NoInput, fault |-> NoCall, may_fail |-> n]

Deterministic ==
  {[deterministic |-> TRUE, fault_at |-> NoInput, fault |-> NoCall, may_fail |-> 0]}
    \cup {[deterministic |-> TRUE, fault_at |-> x, fault |-> o, may_fail |-> 0] :
            x \in Inputs,
            o \in {Raises("Exception"), Raises("ValueError"), Returns(SomeDatetime)}}

parse_iso8601(entry, input) ==
  IF input = entry.fault_at THEN entry.fault ELSE ParseContract(input)

(***************************************************************************)
(* The comparison rule of the oracle, as the specification words it        *)
(***************************************************************************)
\* Acceptance fixture: Success, field-for-field equal, no zone information.
\* Rejection fixture: Rejected.
Meets(k, test_case, out) ==
  IF Tests[k].probe = "equal"
  THEN /\ out.tag = "return" /\ out.class = "datetime"
       /\ \A f \in FieldNames : out.value[f] = test_case.expected_output[f]
  ELSE out.tag = "raise" /\ out.exc = "ValueError"

\* An unexpected fault: an exception other than the rejection signal
IsFault(out) == out.tag = "raise" /\ out.exc # "ValueError"

(***************************************************************************)
(* testsuite/result.py and testsuite/runner.py                             *)
(***************************************************************************)
\* SectionResults(passed=0, failed=0); total is a property
SectionResults(p, f) == [passed |-> p, failed |-> f]

total(section) == section.passed + section.failed

\* instantiate_resultclass handing the runner's failfast on to the result, as
\* unittest's TextTestRunner does
instantiate_resultclass_Failfast(runner_failfast) == runner_failfast

\* QualifierTestRunner.instantiate_resultclass: the result class is given the
\* stream, descriptions and verbosity; the runner's failfast is not handed on,
\* so the result keeps TestResult's failfast = False
instantiate_resultclass(runner_failfast) == FALSE

\* switch_testclass starting every section afresh, not only the new one
switch_testclass_ResetAll(results, cls) ==
  [c \in DOMAIN results \cup {cls} |-> SectionResults(0, 0)]

\* QualifierTestResult.switch_testclass on the results dictionary
switch_testclass(results, cls) ==
  [c \in DOMAIN results \cup {cls} |->
     IF c = cls THEN SectionResults(0, 0) ELSE results[c]]

\* addSubTest counting only assertion failures, not errors, as failed
addSubTest_FailuresOnly(rec, subtest, outcome) ==
  IF outcome = "AssertionError"
  THEN [results |-> [rec.results EXCEPT !.failed = @ + 1],
        outcomes |-> Append(rec.outcomes, [subtest |-> subtest, outcome |-> outcome])]
  ELSE [results |-> [rec.results EXCEPT !.passed = @ + 1],
        outcomes |-> rec.outcomes]

\* addSubTest without its early return: a failed subtest is counted as
\* failed and as passed
addSubTest_NoReturn(rec, subtest, outcome) ==
  IF outcome # None
  THEN [results |-> [rec.results EXCEPT !.failed = @ + 1, !.passed = @ + 1],
        outcomes |-> Append(rec.outcomes, [subtest |-> subtest, outcome |-> outcome])]
  ELSE [results |-> [rec.results EXCEPT !.passed = @ + 1],
        outcomes |-> rec.outcomes]

\* addSubTest recording every subtest, passed or failed, in the outcomes list
addSubTest_AppendAll(rec, subtest, outcome) ==
  IF outcome # None
  THEN [results |-> [rec.results EXCEPT !.failed = @ + 1],
        outcomes |-> Append(rec.outcomes, [subtest |-> subtest, outcome |-> outcome])]
  ELSE [results |-> [rec.results EXCEPT !.passed = @ + 1],
        outcomes |-> Append(rec.outcomes, [subtest |-> subtest, outcome |-> outcome])]

\* QualifierTestResult.addSubTest on (subtest_results, subtest_outcomes)
addSubTest(rec, subtest, outcome) ==
  IF outcome # None
  THEN [results |-> [rec.results EXCEPT !.failed = @ + 1],
        outcomes |-> Append(rec.outcomes, [subtest |-> subtest, outcome |-> outcome])]
  ELSE [results |-> [rec.results EXCEPT !.passed = @ + 1],
        outcomes |-> rec.outcomes]

\* stopTest with the test of subtest_outcomes inverted
stopTest_Inverted(results, cls, outcomes) ==
  IF outcomes # << >>
  THEN [results EXCEPT ![cls].passed = @ + 1]
  ELSE [results EXCEPT ![cls].failed = @ + 1]

\* QualifierTestResult.stopTest on the results dictionary
stopTest(results, cls, outcomes) ==
  IF outcomes = << >>
  THEN [results EXCEPT ![cls].passed = @ + 1]
  ELSE [results EXCEPT ![cls].failed = @ + 1]

\* write_footer reporting PASS as soon as one test method passed
write_footer_AnyPassed(results) ==
  [c \in DOMAIN results |->
     [passed |-> results[c].passed, failed |-> results[c].failed,
      total |-> results[c].passed + results[c].failed,
      result |-> IF results[c].passed > 0 THEN "PASS" ELSE "FAIL"]]

\* QualifierTestRunner.write_footer: one row per section
write_footer(results) ==
  [c \in DOMAIN results |->
     [passed |-> results[c].passed, failed |-> results[c].failed,
      total |-> total(results[c]),
      result |-> IF results[c].passed = total(results[c]) THEN "PASS" ELSE "FAIL"]]

(***************************************************************************)
(* The state of one run                                                    *)
(***************************************************************************)
VARIABLES
  failfast,           \* QualifierTestRunner.failfast
  suite,              \* the TestSuite handed to QualifierTestRunner.run
  entry,              \* the module under test (its parse_iso8601)
  pc,                 \* "ready", "suite", "body", "feed", "done"
  t,                  \* position in the suite
  i,                  \* position in the current test method's fixtures
  errors,             \* _Outcome.errors of the current test
  fed,                \* how many of errors were handed to addSubTest
  result_failfast,    \* TestResult.failfast
  shouldStop,         \* TestResult.shouldStop
  current_testclass,  \* QualifierTestResult.current_testclass
  test_results,       \* QualifierTestResult.test_results
  subtest_results,    \* QualifierTestResult.subtest_results
  subtest_outcomes,   \* QualifierTestResult.subtest_outcomes
  summary,            \* the rows write_footer wrote
  actual_output,      \* what the last call of parse_iso8601 did
  faults,             \* failed fixtures so far, for an Arbitrary entry
  verdict,            \* history: the oracle's verdict on each fixture
  evaluated,          \* history: how often each fixture was evaluated
  fault_log           \* history: the current test's fixtures that hit a fault

vars ==
  << failfast, suite, entry, pc, t, i, errors, fed, result_failfast,
     shouldStop, current_testclass, test_results, subtest_results,
     subtest_outcomes, summary, actual_output, faults, verdict, evaluated,
     fault_log >>

NoRows == [c \in {} |-> SectionResults(0, 0)]

\* The state once the runner is constructed.  subtest_results and
\* subtest_outcomes are first assigned by startTest; they are shown here with
\* the values startTest gives them.
InitRun ==
  /\ pc = "ready"
  /\ t = 1
  /\ i = 1
  /\ errors = << >>
  /\ fed = 0
  /\ result_failfast = FALSE
  /\ shouldStop = FALSE
  /\ current_testclass = None
  /\ test_results = NoRows
  /\ subtest_results = SectionResults(0, 0)
  /\ subtest_outcomes = << >>
  /\ summary = NoRows
  /\ actual_output = NoCall
  /\ faults = 0
  /\ verdict = [st \in AllSubtests |-> "none"]
  /\ evaluated = [st \in AllSubtests |-> 0]
  /\ fault_log = {}

\* run_ascii_testsuite: the suite of load_testsuite, any entry, a runner
\* built without failfast (its default, False)
Init ==
  /\ InitRun
  /\ failfast = FALSE
  /\ suite = load_testsuite
  /\ entry \in {Arbitrary(MaxFaults)} \cup Deterministic

\* QualifierTestRunner.run up to test(result): the result is instantiated and
\* the header written
Run ==
  /\ pc = "ready"
  /\ result_failfast' = instantiate_resultclass(failfast)
  /\ pc' = "suite"
  /\ UNCHANGED << failfast, suite, entry, t, i, errors, fed, shouldStop,
                  current_testclass, test_results, subtest_results,
                  subtest_outcomes, summary, actual_output, faults, verdict,
                  evaluated, fault_log >>

\* TestSuite.run takes the next test unless result.shouldStop; TestCase.run
\* calls result.startTest
StartTest ==
  /\ pc = "suite"
  /\ t <= Len(suite)
  /\ ~ shouldStop
  /\ LET cls == Tests[suite[t].test].cls
     IN /\ subtest_results' = SectionResults(0, 0)
        /\ subtest_outcomes' = << >>
        /\ IF cls # current_testclass
           THEN /\ current_testclass' = cls
                /\ test_results' = switch_testclass(test_results, cls)
           ELSE UNCHANGED << current_testclass, test_results >>
  /\ errors' = << >>
  /\ fed' = 0
  /\ i' = 1
  /\ fault_log' = {}
  /\ pc' = "body"
  /\ UNCHANGED << failfast, suite, entry, t, result_failfast, shouldStop,
                  summary, actual_output, faults, verdict, evaluated >>

\* What the entry may answer on this fixture
Behaviour(k, test_case) ==
  IF entry.deterministic
  THEN {parse_iso8601(entry, test_case.input)}
  ELSE {out \in PossibleOutcomes(k, test_case) :
          faults < entry.may_fail \/ SubTestBody(k, test_case, out) = None}

\* One pass of the for loop of the test method: the subTest block around one
\* fixture.  testPartExecutor queues (subtest, exc_info) or (subtest, None);
\* with result.failfast a failed subtest raises _ShouldStop, which ends the
\* test method.
SubTest ==
  /\ pc = "body"
  /\ LET k == suite[t].test
         st == [test |-> k, case |-> suite[t].order[i]]
         test_case == Params(st)
     IN \E out \in Behaviour(k, test_case) :
          LET exc == SubTestBody(k, test_case, out)
          IN /\ actual_output' = out
             /\ errors' = Append(errors, [subtest |-> st, outcome |-> exc])
             /\ faults' = IF entry.deterministic \/ exc = None
                          THEN faults ELSE faults + 1
             /\ verdict' = [verdict EXCEPT ![st] =
                              IF Meets(k, test_case, out) THEN "passed" ELSE "failed"]
             /\ evaluated' = [evaluated EXCEPT ![st] = @ + 1]
             /\ fault_log' = IF IsFault(out) THEN fault_log \cup {st} ELSE fault_log
             /\ IF (exc # None /\ result_failfast) \/ i = Len(suite[t].order)
                THEN pc' = "feed"
                ELSE pc' = "body"
             /\ i' = i + 1
  /\ UNCHANGED << failfast, suite, entry, t, fed, result_failfast, shouldStop,
                  current_testclass, test_results, subtest_results,
                  subtest_outcomes, summary >>

\* _feedErrorsToResult hands the next queued subtest to result.addSubTest;
\* TestResult.addSubTest stops the run on a failure when failfast is set
AddSubTest ==
  /\ pc = "feed"
  /\ fed < Len(errors)
  /\ LET e == errors[fed + 1]
         new == addSubTest([results |-> subtest_results, outcomes |-> subtest_outcomes],
                           e.subtest, e.outcome)
     IN /\ subtest_results' = new.results
        /\ subtest_outcomes' = new.outcomes
        /\ shouldStop' = (shouldStop \/ (e.outcome # None /\ result_failfast))
  /\ fed' = fed + 1
  /\ actual_output' = NoCall
  /\ UNCHANGED << failfast, suite, entry, pc, t, i, errors, result_failfast,
                  current_testclass, test_results, summary, faults, verdict,
                  evaluated, fault_log >>

\* TestCase.run ends with result.stopTest
StopTest ==
  /\ pc = "feed"
  /\ fed = Len(errors)
  /\ test_results' = stopTest(test_results, current_testclass, subtest_outcomes)
  /\ t' = t + 1
  /\ pc' = "suite"
  /\ actual_output' = NoCall
  /\ UNCHANGED << failfast, suite, entry, i, errors, fed, result_failfast,
                  shouldStop, current_testclass, subtest_results,
                  subtest_outcomes, summary, faults, verdict, evaluated,
                  fault_log >>

\* QualifierTestRunner.run after test(result) returned: write_footer
WriteFooter ==
  /\ pc = "suite"
  /\ ~ (t <= Len(suite) /\ ~ shouldStop)
  /\ summary' = write_footer(test_results)
  /\ pc' = "done"
  /\ UNCHANGED << failfast, suite, entry, t, i, errors, fed, result_failfast,
                  shouldStop, current_testclass, test_results,
                  subtest_results, subtest_outcomes, actual_output, faults,
                  verdict, evaluated, fault_log >>

Next == Run \/ StartTest \/ SubTest \/ AddSubTest \/ StopTest \/ WriteFooter

Spec == Init /\ [][Next]_vars

\* The run is one sequential thread of control: it takes its next step
\* whenever it has one
\* The suite of load_testsuite under a runner built with either failfast
InitAnyRunner ==
  /\ InitRun
  /\ failfast \in BOOLEAN
  /\ suite = load_testsuite
  /\ entry \in {Arbitrary(MaxFairFaults)} \cup Deterministic

FairSpec == InitAnyRunner /\ [][Next]_vars /\ WF_vars(Next)

\* QualifierTestRunner.run accepts any TestSuite: the test methods in any
\* order, the fixtures of each in their tuple's order or in the reverse
\* order, run against a deterministic entry
Schedules ==
  {[n \in TestIds |->
      [test |-> p[n],
       order |-> IF rev THEN Reversed(Iota(Len(Tests[p[n]].cases)))
                        ELSE Iota(Len(Tests[p[n]].cases))]] :
     p \in Permutations(TestIds), rev \in BOOLEAN}

InitAnyOrder ==
  /\ InitRun
  /\ failfast = FALSE
  /\ suite \in Schedules
  /\ entry \in {e \in Deterministic : e.fault \in {NoCall, Raises("Exception")}}

SpecAnyOrder == InitAnyOrder /\ [][Next]_vars

(***************************************************************************)
(* Properties                                                              *)
(***************************************************************************)
ProbeOf(st) == Tests[st.test].probe

GroupOf(st) == Tests[st.test].cls

\* The subtests the result holds as failed
Recorded == {subtest_outcomes[n].subtest : n \in DOMAIN subtest_outcomes}

\* The subtests handed to addSubTest so far
Fed == {errors[n].subtest : n \in 1..fed}

\* A call of parse_iso8601 has just returned into its subTest block
JustProbed == actual_output # NoCall /\ errors # << >>

LastQueued == errors[Len(errors)]

\* The entry that implements the Parser Contract exactly
ExactEntry ==
  [deterministic |-> TRUE, fault_at |-> NoInput, fault |-> NoCall, may_fail |-> 0]

FixturesOf(g, v) == {st \in AllSubtests : GroupOf(st) = g /\ verdict[st] = v}

\* C1: every rejection fixture of test_003 is invalid under the grammar and
\* the calendar validation, so the entry that implements the Parser Contract
\* exactly passes every rejection fixture.
C1_RejectionFixturesInvalid ==
  (JustProbed /\ ProbeOf(LastQueued.subtest) = "raises") =>
    LET s == Params(LastQueued.subtest).input
    IN /\ ~ (WellFormed(s) /\ CalendarValid(FieldsOf(s)))
       /\ ParseContract(s) = Raises("ValueError")
       /\ entry = ExactEntry => verdict[LastQueued.subtest] = "passed"

\* C2: every acceptance fixture's input is in the grammar and passes the
\* calendar validation, and its expected value is the value the contract
\* assigns to the input: the date fields, the time fields that are present,
\* and 0 for every omitted time field.
C2_AcceptanceFixturesValid ==
  (JustProbed /\ ProbeOf(LastQueued.subtest) = "equal") =>
    LET s == Params(LastQueued.subtest).input
        e == Params(LastQueued.subtest).expected_output
    IN /\ WellFormed(s)
       /\ CalendarValid(FieldsOf(s))
       /\ ParseContract(s) = Returns(e)
       /\ e.year = Field4(s, 1) /\ e.month = Field2(s, 6) /\ e.day = Field2(s, 9)
       /\ e.hour = (IF Len(s) >= 13 THEN Field2(s, 12) ELSE 0)
       /\ e.minute = (IF Len(s) >= 16 THEN Field2(s, 15) ELSE 0)
       /\ e.second = (IF Len(s) >= 19 THEN Field2(s, 18) ELSE 0)
       /\ entry = ExactEntry => verdict[LastQueued.subtest] = "passed"

\* An acceptance fixture with omitted time fields was evaluated against the
\* exact entry and passed
C2_Witness ==
  /\ entry = ExactEntry
  /\ JustProbed
  /\ ProbeOf(LastQueued.subtest) = "equal"
  /\ Len(Params(LastQueued.subtest).input) = 16
  /\ actual_output = Returns(Params(LastQueued.subtest).expected_output)
  /\ actual_output.value.second = 0
  /\ verdict[LastQueued.subtest] = "passed"

\* C3: an acceptance fixture is recorded as passed if and only if the entry
\* returned a datetime that is field-for-field equal to the expected value
\* and carries no timezone information; rejection, a differing field or zone
\* information make it a failure.
C3_AcceptanceVerdict ==
  /\ (JustProbed /\ ProbeOf(LastQueued.subtest) = "equal") =>
       LET expected == Params(LastQueued.subtest).expected_output
           success_equal ==
             /\ actual_output.tag = "return"
             /\ actual_output.class = "datetime"
             /\ \A f \in FieldNames \ {"tzinfo"} : actual_output.value[f] = expected[f]
           no_zone == actual_output.value.tzinfo = None
       IN /\ (LastQueued.outcome = None) <=> (success_equal /\ no_zone)
          /\ (verdict[LastQueued.subtest] = "passed") <=> (LastQueued.outcome = None)
  /\ \A n \in 1..fed :
       ProbeOf(errors[n].subtest) = "equal" =>
         /\ (errors[n].subtest \notin Recorded) <=> (verdict[errors[n].subtest] = "passed")
         /\ (errors[n].subtest \in Recorded) <=> (verdict[errors[n].subtest] = "failed")
  /\ (errors # << >> /\ ProbeOf(errors[1].subtest) = "equal") =>
       /\ subtest_results.passed = Cardinality({st \in Fed : verdict[st] = "passed"})
       /\ subtest_results.failed = Cardinality({st \in Fed : verdict[st] = "failed"})

\* All fixtures of an acceptance test method are recorded, some as passed and
\* two as failed
C3_Witness ==
  /\ pc = "feed" /\ fed = Len(errors) /\ fed > 0
  /\ ProbeOf(errors[1].subtest) = "equal"
  /\ subtest_results.passed > 0
  /\ subtest_results.failed = 2

\* C4: a rejection fixture is recorded as passed if and only if the entry
\* raised ValueError; a returned value, whatever it is, makes it a failure.
C4_RejectionVerdict ==
  /\ (JustProbed /\ ProbeOf(LastQueued.subtest) = "raises") =>
       /\ (LastQueued.outcome = None) <=>
            (actual_output.tag = "raise" /\ actual_output.exc = "ValueError")
       /\ actual_output.tag = "return" => LastQueued.outcome # None
       /\ (verdict[LastQueued.subtest] = "passed") <=> (LastQueued.outcome = None)
  /\ \A n \in 1..fed :
       ProbeOf(errors[n].subtest) = "raises" =>
         /\ (errors[n].subtest \notin Recorded) <=> (verdict[errors[n].subtest] = "passed")
         /\ (errors[n].subtest \in Recorded) <=> (verdict[errors[n].subtest] = "failed")
  /\ (errors # << >> /\ ProbeOf(errors[1].subtest) = "raises") =>
       /\ subtest_results.passed = Cardinality({st \in Fed : verdict[st] = "passed"})
       /\ subtest_results.failed = Cardinality({st \in Fed : verdict[st] = "failed"})

\* All rejection fixtures are recorded, some as passed and two as failed
C4_Witness ==
  /\ pc = "feed" /\ fed = Len(errors) /\ fed > 0
  /\ ProbeOf(errors[1].subtest) = "raises"
  /\ subtest_results.passed > 0
  /\ subtest_results.failed = 2

\* C5: whatever the entry does, the run ends having evaluated every fixture
\* of every test method exactly once; the runner's failfast changes nothing.
C5_EveryFixtureOnce ==
  <>(pc = "done" /\ \A st \in AllSubtests : evaluated[st] = 1)

\* A run with failfast set ended with a failed fixture in the first test
\* method and every fixture evaluated once
C5_Witness ==
  /\ pc = "done"
  /\ failfast
  /\ verdict[[test |-> 1, case |-> 1]] = "failed"
  /\ \A st \in AllSubtests : evaluated[st] = 1

\* C6: a fixture on which the entry raises an exception other than
\* ValueError is recorded as failed, every other fixture's verdict is the one
\* its own outcome earns, and the run goes on to its summary.
C6_FaultIsolated ==
  /\ (JustProbed /\ IsFault(actual_output)) =>
       /\ LastQueued.outcome # None
       /\ LastQueued.subtest \in fault_log
       /\ \A n \in 1..(Len(errors) - 1) :
            (errors[n].outcome = None) <=> (verdict[errors[n].subtest] = "passed")
  /\ \A st \in Fed :
       /\ st \in fault_log => st \in Recorded
       /\ st \notin fault_log => ((st \in Recorded) <=> (verdict[st] = "failed"))
  /\ pc # "done" => ENABLED Next
  /\ pc = "done" =>
       /\ DOMAIN summary = Classes
       /\ \A st \in AllSubtests : evaluated[st] = 1

\* The run ended with its summary after a fault on a fixture of the last
\* test method
C6_Witness ==
  /\ pc = "done"
  /\ fault_log # {}
  /\ fault_log \subseteq Recorded
  /\ DOMAIN summary = Classes
  /\ summary[Advanced].result = "FAIL"

\* C7 as claimed: after the run each group's (passed, failed) pair counts the
\* group's passed and failed fixtures.
C7_GroupCountsFixtures ==
  pc = "done" =>
    \A g \in Classes :
      /\ g \in DOMAIN test_results
      /\ test_results[g].passed = Cardinality(FixturesOf(g, "passed"))
      /\ test_results[g].failed = Cardinality(FixturesOf(g, "failed"))

CleanTests(g) ==
  {k \in TestIds : Tests[k].cls = g /\
     \A c \in DOMAIN Tests[k].cases : verdict[[test |-> k, case |-> c]] = "passed"}

DirtyTests(g) ==
  {k \in TestIds : Tests[k].cls = g /\
     \E c \in DOMAIN Tests[k].cases : verdict[[test |-> k, case |-> c]] = "failed"}

\* C7 as amended: after the run each group's (passed, failed) pair counts the
\* group's test methods: passed, those whose fixtures all passed; failed,
\* those with at least one failed fixture.
C7_GroupCountsTestMethods ==
  pc = "done" =>
    \A g \in Classes :
      /\ g \in DOMAIN test_results
      /\ test_results[g].passed = Cardinality(CleanTests(g))
      /\ test_results[g].failed = Cardinality(DirtyTests(g))

\* A finished run in which two fixtures of one basic test method failed
C7_Witness ==
  /\ pc = "done"
  /\ test_results[Basic] = SectionResults(2, 1)
  /\ test_results[Advanced] = SectionResults(1, 0)
  /\ Cardinality(FixturesOf(Basic, "failed")) = 2

\* C8: in the summary a group is PASS if and only if every fixture of the
\* group passed, and FAIL if and only if at least one failed.
C8_SummaryResult ==
  pc = "done" =>
    \A g \in Classes :
      /\ g \in DOMAIN summary
      /\ (summary[g].result = "PASS") <=> (FixturesOf(g, "passed") = {st \in AllSubtests : GroupOf(st) = g})
      /\ (summary[g].result = "FAIL") <=> (FixturesOf(g, "failed") # {})

\* A summary with one group PASS and the other FAIL
C8_Witness ==
  /\ pc = "done"
  /\ summary[Basic].result = "PASS"
  /\ summary[Advanced].result = "FAIL"

\* C9 as claimed: after the run the result holds, for each group, a list with
\* exactly the group's failed fixtures, each once.
C9_FailureListPerGroup ==
  pc = "done" =>
    \A g \in Classes :
      LET at == {n \in DOMAIN subtest_outcomes : GroupOf(subtest_outcomes[n].subtest) = g}
      IN /\ {subtest_outcomes[n].subtest : n \in at} = FixturesOf(g, "failed")
         /\ Cardinality(at) = Cardinality(FixturesOf(g, "failed"))

\* The test method whose stopTest is due or was the last to run
AtStopTest == pc = "feed" /\ fed = Len(errors)

AfterStopTest == pc \in {"suite", "done"} /\ t > 1

\* C9 as amended: at a test method's stopTest, and until the next startTest,
\* subtest_outcomes holds exactly that test method's failed fixtures, each
\* once, and no passed one.
C9_FailureListPerTestMethod ==
  (AtStopTest \/ AfterStopTest) =>
    LET k == IF AtStopTest THEN suite[t].test ELSE suite[t - 1].test
        failed_here == {st \in AllSubtests : st.test = k /\ verdict[st] = "failed"}
    IN /\ Recorded = failed_here
       /\ Len(subtest_outcomes) = Cardinality(failed_here)
       /\ \A n \in DOMAIN subtest_outcomes : subtest_outcomes[n].outcome # None

\* The rejection test method is at its stopTest with two failed fixtures
\* listed
C9_Witness ==
  /\ AtStopTest
  /\ suite[t].test = 3
  /\ Len(subtest_outcomes) = 2
  /\ subtest_results.passed = 10

\* What a deterministic entry earns from its answers alone
PassingTests(g, e) ==
  {k \in TestIds : Tests[k].cls = g /\
     \A c \in DOMAIN Tests[k].cases :
       SubTestBody(k, Tests[k].cases[c], parse_iso8601(e, Tests[k].cases[c].input)) = None}

TestsOf(g) == {k \in TestIds : Tests[k].cls = g}

\* C10: for a deterministic entry the verdict of each fixture, the final
\* per-group counts and the final per-group PASS/FAIL are the same in every
\* order of the test methods and of their fixtures: they are what the
\* entry's answers earn.
C10_OrderIndependent ==
  pc = "done" =>
    /\ \A st \in AllSubtests :
         verdict[st] = IF Meets(st.test, Params(st), parse_iso8601(entry, Params(st).input))
                       THEN "passed" ELSE "failed"
    /\ \A g \in Classes :
         /\ g \in DOMAIN test_results
         /\ test_results[g] =
              SectionResults(Cardinality(PassingTests(g, entry)),
                             Cardinality(TestsOf(g) \ PassingTests(g, entry)))
         /\ summary[g].result =
              (IF PassingTests(g, entry) = TestsOf(g) THEN "PASS" ELSE "FAIL")

\* The order in which test_qualifier.py declares the fixtures: the classes
\* and their test methods as Tests lists them, the fixtures of a test method
\* as its tuple lists them
DeclaredBefore(a, b) ==
  a.test < b.test \/ (a.test = b.test /\ a.case < b.case)

\* The fixtures a step evaluates
NewlyEvaluated == {st \in AllSubtests : evaluated'[st] # evaluated[st]}

\* C11: a run of the loaded suite evaluates the fixtures one at a time and in
\* declaration order: a step evaluates at most one fixture, and when it
\* evaluates one, every fixture declared before it has been evaluated and no
\* fixture declared after it has, so that every basic fixture comes before
\* every advanced one.
C11_DeclarationOrder ==
  [][ /\ Cardinality(NewlyEvaluated) <= 1
      /\ \A st \in NewlyEvaluated :
           /\ evaluated[st] = 0 /\ evaluated'[st] = 1
           /\ \A o \in AllSubtests :
                /\ DeclaredBefore(o, st) => evaluated[o] = 1
                /\ DeclaredBefore(st, o) => evaluated[o] = 0
                /\ (GroupOf(o) = Basic /\ GroupOf(st) = Advanced) => evaluated[o] = 1
                /\ (GroupOf(st) = Basic /\ GroupOf(o) = Advanced) => evaluated[o] = 0 ]_vars

\* The first advanced fixture was just evaluated, after every basic fixture
\* and before the second advanced one
C11_Witness ==
  /\ JustProbed
  /\ LastQueued.subtest = [test |-> 4, case |-> 1]
  /\ evaluated[[test |-> 4, case |-> 1]] = 1
  /\ evaluated[[test |-> 4, case |-> 2]] = 0
  /\ \A st \in AllSubtests : GroupOf(st) = Basic => evaluated[st] = 1

\* Between startTest and stopTest of a test method
InTest == pc \in {"body", "feed"}

\* The per-method counters agree with what was reported so far
CountersAgree ==
  InTest =>
    /\ subtest_results.passed + subtest_results.failed = total(subtest_results)
    /\ total(subtest_results) = fed
    /\ subtest_results.failed = Len(subtest_outcomes)

\* C12: between startTest and stopTest the per-method counters satisfy
\* passed + failed = total = the number of fixtures reported so far and
\* failed = the length of the failure list; each addSubTest adds exactly one
\* to exactly one of passed and failed, nothing else changes them, and
\* startTest resets them to zero and the list to empty.
C12_SubtestCounters ==
  [][ /\ CountersAgree
      /\ CountersAgree'
      /\ (pc = "feed" /\ fed' = fed + 1) =>
           \/ /\ subtest_results'.passed = subtest_results.passed + 1
              /\ subtest_results'.failed = subtest_results.failed
              /\ subtest_outcomes' = subtest_outcomes
           \/ /\ subtest_results'.failed = subtest_results.failed + 1
              /\ subtest_results'.passed = subtest_results.passed
              /\ Len(subtest_outcomes') = Len(subtest_outcomes) + 1
      /\ (pc = "suite" /\ pc' = "body") =>
           /\ subtest_results' = SectionResults(0, 0)
           /\ subtest_outcomes' = << >>
           /\ fed' = 0
      /\ (InTest /\ fed' = fed) =>
           UNCHANGED << subtest_results, subtest_outcomes >> ]_vars

\* The second test method has reported three fixtures, one of them failed,
\* after a first test method that had a failed fixture of its own
C12_Witness ==
  /\ pc = "feed"
  /\ t = 2
  /\ test_results[Basic].failed = 1
  /\ fed = 3
  /\ subtest_results = SectionResults(2, 1)
  /\ Len(subtest_outcomes) = 1

\* A subTest block of the current test method ended with an exception
SomeSubtestFailed == \E n \in DOMAIN errors : errors[n].outcome # None

\* C13: in a run of the suite built by load_testsuite a group's counters are
\* created once, at zero, and afterwards never decrease and are never reset;
\* each stopTest adds exactly one to exactly one of the current group's
\* passed and failed, to failed if and only if a fixture of that test method
\* failed, and leaves the counters of every other group unchanged; no other
\* step changes the counters of an existing group.
C13_GroupCounters ==
  [][ /\ DOMAIN test_results \subseteq DOMAIN test_results'
      /\ \A c \in DOMAIN test_results' \ DOMAIN test_results :
           /\ test_results'[c] = SectionResults(0, 0)
           /\ c = current_testclass'
      /\ \A c \in DOMAIN test_results :
           /\ test_results'[c].passed >= test_results[c].passed
           /\ test_results'[c].failed >= test_results[c].failed
      /\ IF pc = "feed" /\ pc' = "suite"
         THEN /\ current_testclass \in DOMAIN test_results
              /\ LET before == test_results[current_testclass]
                     after == test_results'[current_testclass]
                 IN IF SomeSubtestFailed
                    THEN after = SectionResults(before.passed, before.failed + 1)
                    ELSE after = SectionResults(before.passed + 1, before.failed)
              /\ \A c \in DOMAIN test_results \ {current_testclass} :
                   test_results'[c] = test_results[c]
         ELSE \A c \in DOMAIN test_results : test_results'[c] = test_results[c] ]_vars

\* stopTest has just counted a failed test method of the advanced group
\* while the basic group holds the counts of its three test methods
C13_Witness ==
  /\ pc = "suite"
  /\ t = 5
  /\ current_testclass = Advanced
  /\ SomeSubtestFailed
  /\ test_results[Advanced] = SectionResults(0, 1)
  /\ test_results[Basic] = SectionResults(2, 1)

=============================================================================
